---- MODULE Spec2Model ----
(***************************************************************************)
(* kcpwd: the keychain facade of kcpwd/core.py (set_password,              *)
(* get_password, delete_password, copy_to_clipboard) and the               *)
(* require_password decorator of kcpwd/decorators.py, over the keyring     *)
(* store and the pbcopy clipboard helper.                                  *)
(*                                                                         *)
(* Optional values (Python's Optional[str]) are sequences of length at     *)
(* most one: None is << >>, the string s is << s >>.  A string is the      *)
(* sequence of its code points.                                            *)
(***************************************************************************)
EXTENDS Integers, Sequences, FiniteSets, TLC

\* Number of concurrent callers of delete_password in SpecConc.
NumProcs == 2

Procs == 1..NumProcs

\* Key names used by the tests and the documentation.
Keys == {"testkey", "dbadmin"}

\* Passwords: "", "aé" and a lone surrogate (what argv bytes that are
\* not UTF-8 become in a Python str).
Values == {<< >>, <<97, 233>>, <<56448>>}

ParamNames == {"password", "api_key"}

\* Outcomes of starting the clipboard helper: it runs and sets the clipboard,
\* it runs and exits with an error, or it cannot be started.
ClipEnvs == {"ok", "exit_error", "missing"}

None == << >>

Some(v) == <<v>>

Option(S) == {None} \cup {Some(v) : v \in S}

VARIABLES
  keyring,    \* the OS store under SERVICE_NAME: key -> Optional password
  clipboard,  \* the bytes on the system clipboard
  last,       \* the last facade or decorator call and everything it did
  prev,       \* a summary of the call before it
  gone,       \* keys deleted with success and not set since
  pc,         \* SpecConc: each caller's position inside delete_password
  target,     \* SpecConc: the key each caller deletes
  password,   \* SpecConc: each caller's local variable `password`
  result,     \* SpecConc: what each caller's delete_password returned
  start,      \* SpecConc: the store when the callers started
  missed      \* SpecConc: callers whose deletion found the key removed

vars ==
  <<keyring, clipboard, last, prev, gone, pc, target, password, result, start,
    missed>>

seqVars == <<keyring, clipboard, last, prev, gone>>

concVars == <<pc, target, password, result, start, missed>>

----------------------------------------------------------------------------
(* The keyring library calls, each of which may raise.                     *)

KeyringSet(kr, key, pw, fault) ==
  IF fault
    THEN [raised |-> TRUE, kr |-> kr]
    ELSE [raised |-> FALSE, kr |-> [kr EXCEPT ![key] = Some(pw)]]

\* Reads under another service name: nothing is ever found.
KeyringGetOtherService(kr, key, fault) ==
  [raised |-> fault, val |-> None]

KeyringGet(kr, key, fault) ==
  IF fault
    THEN [raised |-> TRUE, val |-> None]
    ELSE [raised |-> FALSE, val |-> kr[key]]

\* keyring.delete_password raises (PasswordDeleteError) when the key holds
\* nothing; the tests' cleanup fixture wraps it in try/except for that.
KeyringDelete(kr, key, fault) ==
  IF fault \/ kr[key] = None
    THEN [raised |-> TRUE, kr |-> kr]
    ELSE [raised |-> FALSE, kr |-> [kr EXCEPT ![key] = None]]

----------------------------------------------------------------------------
(* text.encode('utf-8')                                                    *)

IsSurrogate(cp) == cp >= 55296 /\ cp <= 57343

Utf8Char(cp) ==
  IF cp < 128 THEN <<cp>>
  ELSE IF cp < 2048 THEN <<192 + (cp \div 64), 128 + (cp % 64)>>
  ELSE IF cp < 65536
    THEN <<224 + (cp \div 4096), 128 + ((cp \div 64) % 64), 128 + (cp % 64)>>
  ELSE <<240 + (cp \div 262144), 128 + ((cp \div 4096) % 64),
         128 + ((cp \div 64) % 64), 128 + (cp % 64)>>

RECURSIVE Utf8Bytes(_)
Utf8Bytes(text) ==
  IF text = << >> THEN << >>
  ELSE Utf8Char(Head(text)) \o Utf8Bytes(Tail(text))

\* UnicodeEncodeError on a surrogate code point.
Utf8Encode(text) ==
  IF \E i \in DOMAIN text : IsSurrogate(text[i])
    THEN [raised |-> TRUE, bytes |-> << >>]
    ELSE [raised |-> FALSE, bytes |-> Utf8Bytes(text)]

\* copy_to_clipboard: Popen(['pbcopy']), communicate(text.encode('utf-8')),
\* True; any exception gives False.  The helper's exit status is not read.
copy_to_clipboard(text, clip, env) ==
  IF env = "missing" THEN [ret |-> FALSE, clipboard |-> clip]
  ELSE LET e == Utf8Encode(text) IN
    IF e.raised THEN [ret |-> FALSE, clipboard |-> clip]
    ELSE IF env = "ok" THEN [ret |-> TRUE, clipboard |-> e.bytes]
    ELSE [ret |-> TRUE, clipboard |-> clip]

----------------------------------------------------------------------------
(* The facade.  Each function is the body of its try block, which may      *)
(* raise, and the except clause that turns a raise into the return value.  *)

\* Python truthiness of an Optional[str]: neither None nor "".
Truthy(opt) == opt # None /\ opt[1] # << >>

SetPasswordTry(kr, key, pw, fault) ==
  LET s == KeyringSet(kr, key, pw, fault) IN
  [raised |-> s.raised, ok |-> ~s.raised, kr |-> s.kr,
   threw |-> IF s.raised THEN {"set"} ELSE {}]

set_password(kr, key, pw, fault) ==
  LET t == SetPasswordTry(kr, key, pw, fault) IN
  IF t.raised THEN [t EXCEPT !.raised = FALSE, !.ok = FALSE] ELSE t

\* A failed clipboard copy masks the retrieval: None is returned.
GetTryClipboardMasks(kr, clip, key, copy_to_clip, fault, env) ==
  LET g == KeyringGet(kr, key, fault) IN
  IF g.raised
    THEN [raised |-> TRUE, out |-> None, clipboard |-> clip, bridge |-> << >>,
          bridgeRet |-> << >>, threw |-> {"get"}]
  ELSE IF Truthy(g.val) /\ copy_to_clip
    THEN LET c == copy_to_clipboard(g.val[1], clip, env) IN
         [raised |-> FALSE, out |-> IF c.ret THEN g.val ELSE None,
          clipboard |-> c.clipboard, bridge |-> <<g.val[1]>>,
          bridgeRet |-> <<c.ret>>, threw |-> {}]
  ELSE [raised |-> FALSE, out |-> g.val, clipboard |-> clip, bridge |-> << >>,
        bridgeRet |-> << >>, threw |-> {}]

GetPasswordTry(kr, clip, key, copy_to_clip, fault, env) ==
  LET g == KeyringGet(kr, key, fault) IN
  IF g.raised
    THEN [raised |-> TRUE, out |-> None, clipboard |-> clip, bridge |-> << >>,
          bridgeRet |-> << >>, threw |-> {"get"}]
  ELSE IF Truthy(g.val) /\ copy_to_clip
    THEN LET c == copy_to_clipboard(g.val[1], clip, env) IN
         [raised |-> FALSE, out |-> g.val, clipboard |-> c.clipboard,
          bridge |-> <<g.val[1]>>, bridgeRet |-> <<c.ret>>, threw |-> {}]
  ELSE [raised |-> FALSE, out |-> g.val, clipboard |-> clip, bridge |-> << >>,
        bridgeRet |-> << >>, threw |-> {}]

\* `return password or None`: an empty password is returned as None.
GetPasswordFalsy(kr, clip, key, copy_to_clip, fault, env) ==
  LET t == GetPasswordTry(kr, clip, key, copy_to_clip, fault, env) IN
  IF t.raised \/ ~Truthy(t.out)
    THEN [t EXCEPT !.raised = FALSE, !.out = None]
    ELSE t

\* No except clause: the keyring's exception leaves the function.
GetPasswordNoExcept(kr, clip, key, copy_to_clip, fault, env) ==
  GetPasswordTry(kr, clip, key, copy_to_clip, fault, env)

\* `except Exception: return ""`.
GetPasswordExceptEmpty(kr, clip, key, copy_to_clip, fault, env) ==
  LET t == GetPasswordTry(kr, clip, key, copy_to_clip, fault, env) IN
  IF t.raised THEN [t EXCEPT !.raised = FALSE, !.out = Some(<< >>)] ELSE t

\* A value remembered across calls: after an overwrite the value read
\* before it is returned.
GetPasswordStale(kr, clip, key, copy_to_clip, fault, env) ==
  LET t == GetPasswordTry(kr, clip, key, copy_to_clip, fault, env) IN
  IF t.raised THEN [t EXCEPT !.raised = FALSE, !.out = None]
  ELSE IF last.op = "set" /\ last.key = key /\ last.held # None
    THEN [t EXCEPT !.out = last.held]
  ELSE t

get_password(kr, clip, key, copy_to_clip, fault, env) ==
  LET t == GetPasswordTry(kr, clip, key, copy_to_clip, fault, env) IN
  IF t.raised THEN [t EXCEPT !.raised = FALSE, !.out = None] ELSE t

\* The two keyring calls of delete_password: the existence read, then the
\* deletion.
DeleteCheck(kr, key, fault) == KeyringGet(kr, key, fault)

DeleteAct(kr, key, fault) == KeyringDelete(kr, key, fault)

\* Returns True without calling keyring.delete_password.
DeleteTryNoDelete(kr, key, faultGet, faultDelete) ==
  LET g == DeleteCheck(kr, key, faultGet) IN
  IF g.raised
    THEN [raised |-> TRUE, ok |-> FALSE, kr |-> kr, deletes |-> 0,
          threw |-> {"get"}]
  ELSE IF g.val = None
    THEN [raised |-> FALSE, ok |-> FALSE, kr |-> kr, deletes |-> 0,
          threw |-> {}]
  ELSE [raised |-> FALSE, ok |-> TRUE, kr |-> kr, deletes |-> 0, threw |-> {}]

\* No existence check: keyring.delete_password is always called.
DeleteTryNoCheck(kr, key, faultGet, faultDelete) ==
  LET d == DeleteAct(kr, key, faultDelete) IN
  [raised |-> d.raised, ok |-> ~d.raised, kr |-> d.kr, deletes |-> 1,
   threw |-> IF d.raised THEN {"delete"} ELSE {}]

DeletePasswordTry(kr, key, faultGet, faultDelete) ==
  LET g == DeleteCheck(kr, key, faultGet) IN
  IF g.raised
    THEN [raised |-> TRUE, ok |-> FALSE, kr |-> kr, deletes |-> 0,
          threw |-> {"get"}]
  ELSE IF g.val = None
    THEN [raised |-> FALSE, ok |-> FALSE, kr |-> kr, deletes |-> 0,
          threw |-> {}]
  ELSE LET d == DeleteAct(kr, key, faultDelete) IN
    [raised |-> d.raised, ok |-> ~d.raised, kr |-> d.kr, deletes |-> 1,
     threw |-> IF d.raised THEN {"delete"} ELSE {}]

\* No except clause around the deletion.
DeleteNoExcept(t) == t

\* except Exception: return False
DeleteExcept(t) ==
  IF t.raised THEN [t EXCEPT !.raised = FALSE, !.ok = FALSE] ELSE t

delete_password(kr, key, faultGet, faultDelete) ==
  DeleteExcept(DeletePasswordTry(kr, key, faultGet, faultDelete))

----------------------------------------------------------------------------
(* require_password(key, param_name) applied to a function, then called    *)
(* with keyword arguments kwargs (a set of <<name, Optional value>>).      *)

HasKw(kwargs, name) == \E e \in kwargs : e[1] = name

KwValue(kwargs, name) == (CHOOSE e \in kwargs : e[1] = name)[2]

SetKw(kwargs, name, value) ==
  {e \in kwargs : e[1] # name} \cup {<<name, value>>}

NotFoundError(key) ==
  [type |-> "ValueError", msg |-> <<"Password not found for key", key>>]

\* An explicit value wins; otherwise the secret is looked up with
\* get_password(key) (no clipboard copy) and injected under param_name, and
\* a missing secret raises before the inner function is called.
require_password(kr, clip, key, param, kwargs, fault) ==
  IF HasKw(kwargs, param) /\ KwValue(kwargs, param) # None
    THEN [inner |-> <<kwargs>>, error |-> None, looked |-> FALSE, threw |-> {}]
  ELSE LET g == get_password(kr, clip, key, FALSE, fault, "ok") IN
    IF g.out = None
      THEN [inner |-> << >>, error |-> Some(NotFoundError(key)),
            looked |-> TRUE, threw |-> g.threw]
      ELSE [inner |-> <<SetKw(kwargs, param, g.out)>>, error |-> None,
            looked |-> TRUE, threw |-> g.threw]

----------------------------------------------------------------------------
(* State.                                                                  *)

NoCall ==
  [op |-> "none", key |-> "", arg |-> None, clip |-> FALSE, env |-> "unused",
   param |-> "", kwargs |-> {}, held |-> None, wasGone |-> FALSE,
   ok |-> FALSE, out |-> None, raised |-> FALSE, threw |-> {},
   bridge |-> << >>, bridgeRet |-> << >>, deletes |-> 0, looked |-> FALSE,
   inner |-> << >>, error |-> None]

NoPrev ==
  [op |-> "none", key |-> "", arg |-> None, ok |-> FALSE, changed |-> FALSE]

\* What the next call remembers of this one, when history is kept.
Summary(l, history) ==
  IF history
    THEN [op |-> l.op, key |-> l.key, arg |-> l.arg, ok |-> l.ok,
          changed |-> l.op = "set" /\ l.ok /\ l.held # None /\ l.held # l.arg]
    ELSE NoPrev

Stores == [Keys -> Option(Values)]

\* The store outlives the process: it may hold anything when the program
\* starts.  The clipboard starts empty.
InitSeq ==
  /\ keyring \in Stores
  /\ clipboard = << >>
  /\ last = NoCall
  /\ prev = NoPrev
  /\ gone = {}

IdleConc ==
  /\ pc = [p \in Procs |-> "idle"]
  /\ target = [p \in Procs |-> ""]
  /\ password = [p \in Procs |-> None]
  /\ result = [p \in Procs |-> "none"]
  /\ start = [k \in Keys |-> None]
  /\ missed = {}

Init == InitSeq /\ IdleConc

----------------------------------------------------------------------------
(* One call of each operation by a single caller.  F is the set of fault   *)
(* choices of a keyring call: {FALSE}, or BOOLEAN when the store may fail. *)
(* H says whether the summary of the previous call is kept.                *)

SetSecret(F, H) ==
  \E key \in Keys, pw \in Values, fault \in F :
    LET r == set_password(keyring, key, pw, fault) IN
    /\ keyring' = r.kr
    /\ last' = [NoCall EXCEPT !.op = "set", !.key = key, !.arg = Some(pw),
                              !.held = keyring[key], !.wasGone = key \in gone,
                              !.ok = r.ok, !.raised = r.raised,
                              !.threw = r.threw]
    /\ prev' = Summary(last, H)
    /\ gone' = IF r.ok THEN gone \ {key} ELSE gone
    /\ UNCHANGED <<clipboard, concVars>>

GetSecret(F, H) ==
  \E key \in Keys, copy_to_clip \in BOOLEAN, fault \in F :
    \E env \in IF copy_to_clip THEN ClipEnvs ELSE {"ok"} :
      LET r == get_password(keyring, clipboard, key, copy_to_clip, fault, env) IN
      /\ clipboard' = r.clipboard
      /\ last' = [NoCall EXCEPT !.op = "get", !.key = key, !.clip = copy_to_clip,
                                !.env = IF r.bridge = << >> THEN "unused" ELSE env,
                                !.held = keyring[key], !.wasGone = key \in gone,
                                !.out = r.out, !.raised = r.raised,
                                !.threw = r.threw, !.bridge = r.bridge,
                                !.bridgeRet = r.bridgeRet]
      /\ prev' = Summary(last, H)
      /\ UNCHANGED <<keyring, gone, concVars>>

DeleteSecret(F, H) ==
  \E key \in Keys, faultGet \in F, faultDelete \in F :
    LET r == delete_password(keyring, key, faultGet, faultDelete) IN
    /\ keyring' = r.kr
    /\ last' = [NoCall EXCEPT !.op = "delete", !.key = key,
                              !.held = keyring[key], !.wasGone = key \in gone,
                              !.ok = r.ok, !.raised = r.raised,
                              !.threw = r.threw, !.deletes = r.deletes]
    /\ prev' = Summary(last, H)
    /\ gone' = IF r.ok THEN gone \cup {key} ELSE gone
    /\ UNCHANGED <<clipboard, concVars>>

OtherParam(param) == CHOOSE n \in ParamNames : n # param

\* The keyword arguments a caller passes: nothing, an argument under the
\* decorator's parameter name (None included), or one under another name.
CallerKwargs(param) ==
  {{}} \cup {{<<param, v>>} : v \in Option(Values)}
       \cup {{<<OtherParam(param), Some(<<97, 233>>)>>}}

WrappedCall(F, H) ==
  \E key \in Keys, param \in ParamNames, fault \in F :
    \E kwargs \in CallerKwargs(param) :
      LET r == require_password(keyring, clipboard, key, param, kwargs, fault) IN
      /\ last' = [NoCall EXCEPT !.op = "call", !.key = key, !.param = param,
                                !.kwargs = kwargs, !.held = keyring[key],
                                !.wasGone = key \in gone, !.threw = r.threw,
                                !.looked = r.looked, !.inner = r.inner,
                                !.error = r.error]
      /\ prev' = Summary(last, H)
      /\ UNCHANGED <<keyring, clipboard, gone, concVars>>

NextSeq(F, H) ==
  SetSecret(F, H) \/ GetSecret(F, H) \/ DeleteSecret(F, H) \/ WrappedCall(F, H)

\* The store honours its contract: its calls raise only as documented.
Next == NextSeq({FALSE}, TRUE)

Spec == Init /\ [][Next]_vars

\* Any keyring call may raise.  No summary of the previous call is kept.
NextFault == NextSeq(BOOLEAN, FALSE)

SpecFault == Init /\ [][NextFault]_vars

----------------------------------------------------------------------------
(* Concurrent callers of delete_password, interleaved at its keyring calls.*)

InitConc ==
  /\ keyring \in Stores
  /\ start = keyring
  /\ target \in [Procs -> Keys]
  /\ pc = [p \in Procs |-> "check"]
  /\ password = [p \in Procs |-> None]
  /\ result = [p \in Procs |-> "none"]
  /\ missed = {}
  /\ clipboard = << >>
  /\ last = NoCall
  /\ prev = NoPrev
  /\ gone = {}

\* What the caller sees of a finished delete_password.
Returned(t) == IF t.raised THEN "raised" ELSE IF t.ok THEN "true" ELSE "false"

\* password = keyring.get_password(SERVICE_NAME, key); if None: return False
Check(p) ==
  /\ pc[p] = "check"
  /\ LET g == DeleteCheck(keyring, target[p], FALSE) IN
     /\ password' = [password EXCEPT ![p] = g.val]
     /\ IF g.val = None
          THEN /\ pc' = [pc EXCEPT ![p] = "done"]
               /\ result' = [result EXCEPT ![p] = "false"]
          ELSE /\ pc' = [pc EXCEPT ![p] = "delete"]
               /\ UNCHANGED result
  /\ UNCHANGED <<seqVars, target, start, missed>>

\* keyring.delete_password(SERVICE_NAME, key); return True, under the except
Delete(p) ==
  /\ pc[p] = "delete"
  /\ LET d == DeleteAct(keyring, target[p], FALSE)
         t == DeleteExcept([raised |-> d.raised, ok |-> ~d.raised])
     IN /\ keyring' = d.kr
        /\ result' = [result EXCEPT ![p] = Returned(t)]
        /\ pc' = [pc EXCEPT ![p] = "done"]
        /\ missed' = IF d.raised THEN missed \cup {p} ELSE missed
  /\ UNCHANGED <<clipboard, last, prev, gone, target, password, start>>

NextConc == \E p \in Procs : Check(p) \/ Delete(p)

SpecConc == InitConc /\ [][NextConc]_vars

----------------------------------------------------------------------------
(* Properties.                                                             *)

\* C1: a get_password(key) that directly follows a successful
\* set_password(key, value) returns exactly value, whatever the key held
\* before, and the store then holds that one value for the key.
C1_RoundTrip ==
  (last.op = "get" /\ prev.op = "set" /\ prev.ok /\ prev.key = last.key)
    => /\ last.out = prev.arg
       /\ ~last.raised
       /\ keyring[last.key] = prev.arg

C1_Witness ==
  /\ last.op = "get" /\ prev.op = "set" /\ prev.ok /\ prev.key = last.key
  /\ prev.changed
  /\ last.out = prev.arg

\* C2: delete_password on a key that holds a value returns True and leaves
\* the key without a value; from then on, until the key is set again,
\* get_password returns None for it and delete_password returns False.
C2_DeleteRemoves ==
  /\ (last.op = "delete" /\ last.held # None)
       => (last.ok /\ ~last.raised /\ keyring[last.key] = None)
  /\ (last.op = "get" /\ last.wasGone) => (last.out = None /\ ~last.raised)
  /\ (last.op = "delete" /\ last.wasGone) => (~last.ok /\ ~last.raised)

C2_Witness ==
  /\ last.op = "delete" /\ last.wasGone /\ ~last.ok
  /\ prev.op = "get" /\ prev.key = last.key

\* C3: delete_password on a key that holds no value returns False, does not
\* raise, never calls keyring.delete_password and leaves the store as it was.
C3_DeleteMissing ==
  [][(last'.op = "delete" /\ keyring[last'.key] = None)
       => /\ ~last'.ok
          /\ ~last'.raised
          /\ last'.deletes = 0
          /\ keyring' = keyring]_vars

C3_Witness ==
  /\ last.op = "delete" /\ last.held = None /\ last.threw = {}
  /\ ~last.ok /\ last.deletes = 0
  /\ \E k \in Keys : keyring[k] # None

\* C4: no facade function lets a keyring exception out: when the keyring
\* call raises, set_password returns False, get_password returns None (as
\* it does for a key that holds nothing, without raising) and
\* delete_password returns False, whether its read or its deletion raised.
C4_NoPropagation ==
  /\ ~last.raised
  /\ (last.op = "set" /\ last.threw = {"set"}) => ~last.ok
  /\ (last.op = "get" /\ last.threw = {"get"}) => last.out = None
  /\ (last.op = "delete" /\ last.threw # {}) => ~last.ok
  /\ (last.op = "get" /\ last.held = None) => last.out = None

C4_Witness ==
  /\ last.op = "delete" /\ last.threw = {"delete"} /\ last.held # None
  /\ ~last.ok /\ ~last.raised

\* C5: get_password(key, copy_to_clip=True) on a key that holds a value
\* returns that value, whatever copy_to_clipboard did.
C5_ClipboardDecoupled ==
  (last.op = "get" /\ last.clip /\ last.held # None)
    => (last.out = last.held /\ ~last.raised)

C5_Witness ==
  /\ last.op = "get" /\ last.clip /\ last.held # None
  /\ last.env = "missing" /\ last.bridgeRet = <<FALSE>>
  /\ last.out = last.held

\* C6: a wrapped call with an explicit value other than None under
\* param_name calls the inner function with the caller's keyword arguments
\* unchanged, whatever the store holds; a wrapped call without that keyword
\* argument, on a key that holds a value, calls the inner function with the
\* stored value added under param_name.
C6_Precedence ==
  /\ (last.op = "call" /\ HasKw(last.kwargs, last.param)
        /\ KwValue(last.kwargs, last.param) # None)
       => (last.inner = <<last.kwargs>> /\ last.error = None)
  /\ (last.op = "call" /\ ~HasKw(last.kwargs, last.param) /\ last.held # None)
       => (last.inner = <<SetKw(last.kwargs, last.param, last.held)>>
             /\ last.error = None)

C6_Witness ==
  /\ last.op = "call" /\ last.param = "api_key" /\ last.kwargs = {}
  /\ last.held # None
  /\ last.inner = <<{<<"api_key", last.held>>}>>

MsgHasKey(msg, key) == \E i \in DOMAIN msg : msg[i] = key

NoCallerValue(l) ==
  ~HasKw(l.kwargs, l.param) \/ KwValue(l.kwargs, l.param) = None

\* C7: a wrapped call without a caller-supplied value, when get_password
\* returns None (the key holds nothing, or the keyring read raised), fails
\* with an error whose message contains the key, and the inner function is
\* not called.
C7_MissingSecret ==
  (last.op = "call" /\ NoCallerValue(last)
     /\ (last.held = None \/ last.threw # {}))
    => /\ last.error # None
       /\ MsgHasKey(last.error[1].msg, last.key)
       /\ last.inner = << >>

C7_Witness ==
  /\ last.op = "call" /\ last.kwargs = {} /\ last.held = None
  /\ last.error # None /\ last.inner = << >>

\* C8: every wrapped call that has to look the secret up uses what the store
\* holds for the key at that call: it injects that value, or fails when the
\* key holds nothing, and it changes nothing in the store.
C8_NoCaching ==
  [][(last'.op = "call" /\ last'.looked)
       => /\ keyring' = keyring
          /\ IF keyring[last'.key] = None
               THEN last'.inner = << >> /\ last'.error # None
               ELSE /\ last'.error = None
                    /\ last'.inner =
                         <<SetKw(last'.kwargs, last'.param, keyring[last'.key])>>]_vars

C8_Witness ==
  /\ last.op = "call" /\ last.looked
  /\ prev.op = "set" /\ prev.key = last.key /\ prev.changed
  /\ last.inner = <<SetKw(last.kwargs, last.param, prev.arg)>>

\* C9: get_password calls copy_to_clipboard with the retrieved value exactly
\* when the key holds a value (the empty string included) and copy_to_clip
\* is true.
C9_BridgeInvoked ==
  last.op = "get"
    => IF last.held # None /\ last.clip
         THEN last.bridge = <<last.held[1]>>
         ELSE last.bridge = << >>

Callers(k) == {p \in Procs : target[p] = k}

\* C10: when several delete_password(key) calls run concurrently on a key
\* that held a value, once all have returned none has raised, exactly one
\* has returned True, and each call whose deletion found the key already
\* removed has returned False.
C10_ConcurrentDelete ==
  /\ \A p \in Procs : result[p] # "raised"
  /\ \A p \in missed : result[p] = "false"
  /\ \A k \in Keys :
       (start[k] # None /\ Cardinality(Callers(k)) >= 2
          /\ \A p \in Callers(k) : pc[p] = "done")
         => Cardinality({p \in Callers(k) : result[p] = "true"}) = 1

C10_Witness ==
  \E k \in Keys :
    /\ start[k] # None /\ Cardinality(Callers(k)) >= 2
    /\ \A p \in Callers(k) : pc[p] = "done"
    /\ \E p \in Callers(k) : p \in missed /\ result[p] = "false"
    /\ \E p \in Callers(k) : result[p] = "true"

====
